---------------------------- MODULE Spec2Model ----------------------------
(***************************************************************************)
(* A model of the data pipeline scripts piping_data.py, test_code1.py,     *)
(* test_code2.py and test_code4.py: the cleaning step (null handling,      *)
(* duplicate handling), the column type suggestion suggest_dtype and the   *)
(* order in which each script runs its steps.                              *)
(*                                                                         *)
(* A dataset (pandas DataFrame) is a record                                *)
(*   [columns |-> names, dtypes |-> one dtype per column, rows |-> rows]   *)
(* and a row is a tuple of cells, one per column.  A cell is a tagged      *)
(* tuple: NA (NaN / None / NaT), <<"num", n, d>> (the number n/d in lowest *)
(* terms), <<"str", chars>> (a Python str, as the tuple of its characters) *)
(* or <<"bool", b>>.                                                       *)
(***************************************************************************)
EXTENDS Integers, Sequences, FiniteSets, TLC

VARIABLES
    variant,     \* which script runs
    pc,          \* the position of the script run
    df,          \* the DataFrame `df` of the script
    loaded,      \* the DataFrame as the load step produced it
    trace,       \* the cleaning steps executed so far in this run, in order
    fill_values, \* test_code4: the literals typed for "Custom fill per column"
    suggested,   \* test_code4: the result of suggest_dtype per column
    pandas_version, \* the pandas release the script runs on
    session_state   \* piping_data: st.session_state, kept from rerun to rerun

vars ==
    <<variant, pc, df, loaded, trace, fill_values, suggested, pandas_version, session_state>>

----------------------------------------------------------------------------
(* Bounds of the model *)

\* the largest number of rows of a dataset the cleaning functions are applied to
MaxRows == 4

\* the largest number of rows of a column suggest_dtype is applied to
MaxLen == 3

\* the largest number of rows of a dataset a whole script run is followed on
PipeRows == 2

----------------------------------------------------------------------------
(* Cells *)

NA == <<"NA">>

Abs(n) == IF n < 0 THEN -n ELSE n

RECURSIVE Gcd(_, _)
Gcd(a, b) == IF b = 0 THEN a ELSE Gcd(b, a % b)

\* the number n/d (d > 0), in lowest terms
Num(n, d) ==
    LET g == Gcd(Abs(n), d)
    IN  IF g = 0 THEN <<"num", 0, 1>> ELSE <<"num", n \div g, d \div g>>

Whole(n) == <<"num", n, 1>>

Str(chars) == <<"str", chars>>

Bool(b) == <<"bool", b>>

\* a Timestamp (the k-th day)
Ts(k) == <<"ts", k>>

IsNum(c) == c[1] = "num"

IsStr(c) == c[1] = "str"

IsBool(c) == c[1] = "bool"

\* pandas isna / isnull of one cell
isnull(c) == c = NA

notna(c) == c # NA

----------------------------------------------------------------------------
(* Sequences *)

Range(s) == {s[i] : i \in 1..Len(s)}

Reverse(s) == [i \in 1..Len(s) |-> s[Len(s) + 1 - i]]

\* the sequences over S of length 0..n
SeqsUpTo(S, n) == UNION {[1..k -> S] : k \in 0..n}

----------------------------------------------------------------------------
(* DataFrame access *)

NCols(d) == Len(d.columns)

NRows(d) == Len(d.rows)

\* df[col] as the sequence of its cells (c is the position of the column)
Column(d, c) == [i \in 1..NRows(d) |-> d.rows[i][c]]

\* series.dropna(): the non-missing cells in row order
RECURSIVE dropna_series(_)
dropna_series(s) ==
    IF s = <<>> THEN <<>>
    ELSE IF isnull(Head(s)) THEN dropna_series(Tail(s))
    ELSE <<Head(s)>> \o dropna_series(Tail(s))

\* df.select_dtypes(include=["number"]).columns: bool, datetime and object
\* columns are not numbers
NumberDtypes == {"int64", "float64"}

select_dtypes_number(d) == {c \in 1..NCols(d) : d.dtypes[c] \in NumberDtypes}

----------------------------------------------------------------------------
(* Numbers: the arithmetic of mean and median on n/d cells *)

AddNum(x, y) == Num(x[2] * y[3] + y[2] * x[3], x[3] * y[3])

DivNum(x, k) == Num(x[2], x[3] * k)

LessNum(x, y) == x[2] * y[3] < y[2] * x[3]

RECURSIVE SumNum(_)
SumNum(s) == IF s = <<>> THEN Whole(0) ELSE AddNum(Head(s), SumNum(Tail(s)))

\* the sorted numbers s with x inserted in its place
RECURSIVE InsertSorted(_, _)
InsertSorted(x, s) ==
    IF s = <<>> THEN <<x>>
    ELSE IF LessNum(Head(s), x) THEN <<Head(s)>> \o InsertSorted(x, Tail(s))
    ELSE <<x>> \o s

RECURSIVE Sorted(_)
Sorted(s) == IF s = <<>> THEN <<>> ELSE InsertSorted(Head(s), Sorted(Tail(s)))

\* Series.mean() (skipna): NaN for a column with no value
mean(s) ==
    LET v == dropna_series(s)
    IN  IF v = <<>> THEN NA ELSE DivNum(SumNum(v), Len(v))

\* Series.median() (skipna): the middle value, or the mean of the two middle ones
median(s) ==
    LET v == Sorted(dropna_series(s))
        n == Len(v)
    IN  IF n = 0 THEN NA
        ELSE IF n % 2 = 1 THEN v[(n + 1) \div 2]
        ELSE DivNum(AddNum(v[n \div 2], v[n \div 2 + 1]), 2)

----------------------------------------------------------------------------
(* Text: a str is the tuple of its characters *)

\* the characters the model's strings are made of, in code point order
Alphabet ==
    <<"-", ".", "0", "1", "2", "3", "4", "5", "6", "7", "8", "9",
      "F", "N", "T", "Y",
      "a", "d", "e", "f", "l", "n", "o", "r", "s", "t", "u", "x", "y">>

Ord(ch) == CHOOSE i \in 1..Len(Alphabet) : Alphabet[i] = ch

\* s < t for two str
RECURSIVE LessChars(_, _)
LessChars(s, t) ==
    IF t = <<>> THEN FALSE
    ELSE IF s = <<>> THEN TRUE
    ELSE IF Head(s) # Head(t) THEN Ord(Head(s)) < Ord(Head(t))
    ELSE LessChars(Tail(s), Tail(t))

\* the order Series.mode() sorts its result in (one type per column)
LessCell(x, y) ==
    IF IsNum(x) /\ IsNum(y) THEN LessNum(x, y)
    ELSE IF IsStr(x) /\ IsStr(y) THEN LessChars(x[2], y[2])
    ELSE IF IsBool(x) /\ IsBool(y) THEN (~x[2]) /\ y[2]
    ELSE FALSE

Digits == {"0", "1", "2", "3", "4", "5", "6", "7", "8", "9"}

DigitVal(ch) == Ord(ch) - Ord("0")

----------------------------------------------------------------------------
(* Exceptions: a Python expression that raises has the value RAISE *)

RAISE == <<"raise">>

----------------------------------------------------------------------------
(* The pandas calls of the cleaning step *)

\* the dataset d with the cells of column c given by cols[c]
WithColumns(d, cols, dts) ==
    [d EXCEPT !.rows = [i \in 1..NRows(d) |-> [c \in 1..NCols(d) |-> cols[c][i]]],
              !.dtypes = dts]

\* dropna along the other axis (axis=1): the columns with a missing cell
\* (how="any") or with only missing cells (how="all") are dropped
dropna_axis_columns(d, how) ==
    LET keep(c) == IF how = "any" THEN \A i \in 1..NRows(d) : notna(d.rows[i][c])
                   ELSE NRows(d) = 0 \/ \E i \in 1..NRows(d) : notna(d.rows[i][c])
        kept == SelectSeq([c \in 1..NCols(d) |-> c], keep)
    IN  [columns |-> [k \in 1..Len(kept) |-> d.columns[kept[k]]],
         dtypes |-> [k \in 1..Len(kept) |-> d.dtypes[kept[k]]],
         rows |-> [i \in 1..NRows(d) |-> [k \in 1..Len(kept) |-> d.rows[i][kept[k]]]]]

\* dropna with how="any" and how="all" taken for each other
dropna_how_swapped(d, how) ==
    LET anynull(r) == \E c \in 1..Len(r) : isnull(r[c])
        allnull(r) == \A c \in 1..Len(r) : isnull(r[c])
    IN  [d EXCEPT !.rows =
            IF how = "any" THEN SelectSeq(d.rows, LAMBDA r : ~allnull(r))
            ELSE SelectSeq(d.rows, LAMBDA r : ~anynull(r))]

\* DataFrame.dropna(how=how): drop the rows with any (all) cells missing
dropna(d, how) ==
    LET anynull(r) == \E c \in 1..Len(r) : isnull(r[c])
        allnull(r) == \A c \in 1..Len(r) : isnull(r[c])
    IN  [d EXCEPT !.rows =
            IF how = "any" THEN SelectSeq(d.rows, LAMBDA r : ~anynull(r))
            ELSE SelectSeq(d.rows, LAMBDA r : ~allnull(r))]

\* the cells of a row that duplicated() compares: NaN hashes equal to NaN
RowKey(r, subset) == [c \in subset |-> r[c]]

\* first_occurrences comparing cells as Python does (NaN != NaN): a row with a
\* missing compared cell never counts as seen
RECURSIVE first_occurrences_nan_distinct(_, _, _)
first_occurrences_nan_distinct(rows, subset, seen) ==
    IF rows = <<>> THEN <<>>
    ELSE LET k == RowKey(Head(rows), subset)
         IN  IF k \in seen
             THEN first_occurrences_nan_distinct(Tail(rows), subset, seen)
             ELSE <<Head(rows)>>
                  \o first_occurrences_nan_distinct(Tail(rows), subset,
                        IF \E c \in subset : isnull(k[c]) THEN seen ELSE seen \cup {k})

\* the rows whose key was not seen before, scanning in order
RECURSIVE first_occurrences(_, _, _)
first_occurrences(rows, subset, seen) ==
    IF rows = <<>> THEN <<>>
    ELSE LET k == RowKey(Head(rows), subset)
         IN  IF k \in seen THEN first_occurrences(Tail(rows), subset, seen)
             ELSE <<Head(rows)>>
                  \o first_occurrences(Tail(rows), subset, seen \cup {k})

\* DataFrame.drop_duplicates(subset=subset, keep=keep)
drop_duplicates(d, subset, keep) ==
    [d EXCEPT !.rows =
        IF keep = "first" THEN first_occurrences(d.rows, subset, {})
        ELSE Reverse(first_occurrences(Reverse(d.rows), subset, {}))]

\* DataFrame.duplicated().sum(): the rows that repeat an earlier row
duplicated_sum(d) ==
    NRows(d) - Len(first_occurrences(d.rows, 1..NCols(d), {}))

\* ffill that fills from the cell just above only (as ffill(limit=1))
RECURSIVE ffill_series_one_step(_, _)
ffill_series_one_step(s, last) ==
    IF s = <<>> THEN <<>>
    ELSE <<IF isnull(Head(s)) THEN last ELSE Head(s)>>
         \o ffill_series_one_step(Tail(s), Head(s))

\* Series.ffill(): carry the last valid value forward
RECURSIVE ffill_series(_, _)
ffill_series(s, last) ==
    IF s = <<>> THEN <<>>
    ELSE LET v == IF isnull(Head(s)) THEN last ELSE Head(s)
         IN  <<v>> \o ffill_series(Tail(s), v)

\* DataFrame.ffill()
ffill(d) ==
    WithColumns(d, [c \in 1..NCols(d) |-> ffill_series(Column(d, c), NA)], d.dtypes)

\* DataFrame.bfill()
bfill(d) ==
    WithColumns(d,
        [c \in 1..NCols(d) |-> Reverse(ffill_series(Reverse(Column(d, c)), NA))],
        d.dtypes)

\* the column overwritten with the value (df[col] = value, fillna forgotten)
fillna_overwrite(s, value) == [i \in 1..Len(s) |-> value]

\* Series.fillna(value); fillna(NaN) changes nothing
fillna(s, value) == [i \in 1..Len(s) |-> IF isnull(s[i]) THEN value ELSE s[i]]

\* the number of cells of s equal to x
CountOf(s, x) == Cardinality({i \in 1..Len(s) : s[i] = x})

\* Series.mode(): the most frequent non-missing values (empty when there is none)
mode(s) ==
    LET v == dropna_series(s)
    IN  {x \in Range(v) : \A y \in Range(v) : CountOf(v, y) <= CountOf(v, x)}

\* the first non-missing value taken for the mode (dropna().iloc[0])
mode_0_first_value(s) ==
    IF dropna_series(s) = <<>> THEN RAISE ELSE dropna_series(s)[1]

\* Series.mode()[0]: mode() is sorted, [0] is its least value; KeyError when empty
mode_0(s) ==
    IF mode(s) = {} THEN RAISE
    ELSE CHOOSE x \in mode(s) : \A y \in mode(s) : ~LessCell(y, x)

----------------------------------------------------------------------------
(* Python conversions of a typed literal *)

\* int() of a string of digits
RECURSIVE DigitsVal(_)
DigitsVal(s) ==
    IF s = <<>> THEN 0
    ELSE 10 * DigitsVal(SubSeq(s, 1, Len(s) - 1)) + DigitVal(s[Len(s)])

RECURSIVE Pow10(_)
Pow10(k) == IF k = 0 THEN 1 ELSE 10 * Pow10(k - 1)

\* s without its first occurrence of ch: str.replace(ch, "", 1)
RECURSIVE replace_first(_, _)
replace_first(s, ch) ==
    IF s = <<>> THEN <<>>
    ELSE IF Head(s) = ch THEN Tail(s)
    ELSE <<Head(s)>> \o replace_first(Tail(s), ch)

AllDigits(s) == \A i \in 1..Len(s) : s[i] \in Digits

\* numpy.float64(text) for texts over Alphabet without an exponent: an optional
\* "-", digits with at most one ".", at least one digit; ValueError otherwise
float(text) ==
    LET neg  == text # <<>> /\ Head(text) = "-"
        body == IF neg THEN Tail(text) ELSE text
        ds   == replace_first(body, ".")
        dot  == IF \E i \in 1..Len(body) : body[i] = "."
                THEN CHOOSE i \in 1..Len(body) :
                        body[i] = "." /\ \A j \in 1..(i - 1) : body[j] # "."
                ELSE Len(body) + 1
        mag  == Num(DigitsVal(ds), Pow10(IF dot > Len(body) THEN 0 ELSE Len(body) - dot))
    IN  IF ds = <<>> \/ ~AllDigits(ds) THEN RAISE
        ELSE IF neg THEN Num(-mag[2], mag[3]) ELSE mag

\* type(v)(replacement) for a non-missing cell v: numpy.float64, str or bool
construct(v, replacement) ==
    IF IsNum(v) THEN float(replacement)
    ELSE IF IsStr(v) THEN Str(replacement)
    ELSE Bool(replacement # <<>>)

\* type(df[col].dropna().iloc[0])(replacement); iloc[0] of an empty Series
\* raises IndexError
coerce_like(s, replacement) ==
    IF dropna_series(s) = <<>> THEN RAISE
    ELSE construct(dropna_series(s)[1], replacement)


----------------------------------------------------------------------------
(* Step 3 of test_code4.py: the null strategies and the duplicate strategies *)

NullStrategies ==
    {"Do nothing", "Drop rows with any nulls", "Drop rows with all nulls",
     "Fill with column mean (numeric only)", "Fill with column median (numeric only)",
     "Fill with column mode (all types)", "Forward fill (propagate last valid value)",
     "Backward fill (propagate next valid value)", "Custom fill per column"}

DupStrategies ==
    {"Do nothing", "Drop all duplicates (keep first)", "Drop all duplicates (keep last)",
     "Drop duplicates across selected subset of columns"}

\* for col in df.select_dtypes(include=["number"]).columns:
\*     df[col] = df[col].fillna(df[col].mean())
fill_mean(d) ==
    WithColumns(d,
        [c \in 1..NCols(d) |->
            IF c \in select_dtypes_number(d)
            THEN fillna(Column(d, c), mean(Column(d, c)))
            ELSE Column(d, c)],
        d.dtypes)

\* the same loop with df[col].median()
fill_median(d) ==
    WithColumns(d,
        [c \in 1..NCols(d) |->
            IF c \in select_dtypes_number(d)
            THEN fillna(Column(d, c), median(Column(d, c)))
            ELSE Column(d, c)],
        d.dtypes)

\* for col in df.columns: if df[col].isnull().any():
\*     try: df[col] = df[col].fillna(df[col].mode()[0])  except Exception: pass
fill_mode(d) ==
    WithColumns(d,
        [c \in 1..NCols(d) |->
            IF (\E i \in 1..NRows(d) : isnull(d.rows[i][c]))
               /\ mode_0(Column(d, c)) # RAISE
            THEN fillna(Column(d, c), mode_0(Column(d, c)))
            ELSE Column(d, c)],
        d.dtypes)

\* df.columns[df.isnull().any()]: the columns a fill value is asked for
columns_with_nulls(d) ==
    {c \in 1..NCols(d) : \E i \in 1..NRows(d) : isnull(d.rows[i][c])}

\* custom_value with `except Exception: pass`: nothing is filled when the
\* coercion fails
custom_value_skip_on_failure(s, replacement) ==
    IF coerce_like(s, replacement) = RAISE THEN NA
    ELSE coerce_like(s, replacement)

\* the value one column is filled with under "Custom fill per column":
\* try: type(df[col].dropna().iloc[0])(replacement)  except Exception: replacement
custom_value(s, replacement) ==
    IF coerce_like(s, replacement) = RAISE THEN Str(replacement)
    ELSE coerce_like(s, replacement)

\* the dtype of a column after fillna(value): a str or bool in a float64 column
\* makes it object
fillna_dtype(dt, value) == IF IsNum(value) THEN dt ELSE "object"

\* for col, replacement in fill_values.items(): ... (after "Apply Custom Fill")
custom_fill(d, fv) ==
    WithColumns(d,
        [c \in 1..NCols(d) |->
            IF c \in DOMAIN fv
            THEN fillna(Column(d, c), custom_value(Column(d, c), fv[c]))
            ELSE Column(d, c)],
        [c \in 1..NCols(d) |->
            IF c \in DOMAIN fv
            THEN fillna_dtype(d.dtypes[c], custom_value(Column(d, c), fv[c]))
            ELSE d.dtypes[c]])

\* the if / elif chain on null_strategy; fv and apply are the texts typed and
\* whether "Apply Custom Fill" was pressed
handle_nulls(d, null_strategy, fv, apply) ==
    CASE null_strategy = "Drop rows with any nulls" -> dropna(d, "any")
      [] null_strategy = "Drop rows with all nulls" -> dropna(d, "all")
      [] null_strategy = "Fill with column mean (numeric only)" -> fill_mean(d)
      [] null_strategy = "Fill with column median (numeric only)" -> fill_median(d)
      [] null_strategy = "Fill with column mode (all types)" -> fill_mode(d)
      [] null_strategy = "Forward fill (propagate last valid value)" -> ffill(d)
      [] null_strategy = "Backward fill (propagate next valid value)" -> bfill(d)
      [] null_strategy = "Custom fill per column" ->
            IF apply THEN custom_fill(d, fv) ELSE d
      [] OTHER -> d

\* the if / elif chain on dup_strategy; subset_cols is the multiselect
handle_duplicates(d, dup_strategy, subset_cols) ==
    CASE dup_strategy = "Drop all duplicates (keep first)" ->
            drop_duplicates(d, 1..NCols(d), "first")
      [] dup_strategy = "Drop all duplicates (keep last)" ->
            drop_duplicates(d, 1..NCols(d), "last")
      [] dup_strategy = "Drop duplicates across selected subset of columns" ->
            IF subset_cols # {} THEN drop_duplicates(d, subset_cols, "first") ELSE d
      [] OTHER -> d


----------------------------------------------------------------------------
(* The datasets the cleaning step is applied to *)

ColumnNames == <<"id", "val">>

NumCells == {NA, Whole(1), Whole(2)}

TextCells == {NA, Str(<<"x">>), Str(<<"y">>)}

FewTextCells == {NA, Str(<<"x">>)}

\* the texts typed into "Fill value for column ..."
Literals == {<<"1", ".", "5">>, <<"x">>}

\* the dtype pd.read_csv gives a column: int64 for whole numbers without a
\* missing cell, float64 for numbers with one (and for an empty column),
\* object for text
read_csv_dtype(s) ==
    IF \A i \in 1..Len(s) : isnull(s[i]) \/ IsNum(s[i])
    THEN IF \A i \in 1..Len(s) : notna(s[i]) /\ s[i][3] = 1 THEN "int64" ELSE "float64"
    ELSE "object"

\* the DataFrame pd.read_csv builds from the rows of a file
read_csv(rows) ==
    [columns |-> ColumnNames,
     dtypes  |-> [c \in 1..Len(ColumnNames) |->
                    read_csv_dtype([i \in 1..Len(rows) |-> rows[i][c]])],
     rows    |-> rows]

\* files of 1..MaxRows rows: a column of numbers or of text, and a column of text
CleanDatasets ==
    {read_csv(rows) :
        rows \in UNION {[1..k -> (NumCells \X FewTextCells)] \cup
                        [1..k -> (TextCells \X FewTextCells)] : k \in 1..MaxRows}}

----------------------------------------------------------------------------
(* The cleaning step applied once to a loaded dataset (test_code4.py) *)

NoFill == <<>>

\* pd.to_datetime reads the values one by one in pandas 1.x and all of them in
\* the format of the first in pandas 2.x
PandasVersions == {"1.x", "2.x"}

\* st.session_state of a new browser session: no key is set
NoSession == [key \in {} |-> 0]

\* an entry of the trace: a step of the run, what was selected for it and
\* whether it was applied
Entry(step, strategy, applied) ==
    [step |-> step, strategy |-> strategy, applied |-> applied]

InitClean ==
    /\ pandas_version \in PandasVersions
    /\ session_state = NoSession
    /\ variant = "test_code4"
    /\ pc = "clean"
    /\ df \in CleanDatasets
    /\ loaded = df
    /\ trace = <<>>
    /\ fill_values = NoFill
    /\ suggested = <<>>

\* one run of the null-handling block with the given selection
ApplyNull(null_strategy, fv, apply) ==
    /\ pc = "clean"
    /\ df' = handle_nulls(df, null_strategy, fv, apply)
    /\ trace' = <<[step |-> "null", strategy |-> null_strategy, applied |-> apply]>>
    /\ fill_values' = fv
    /\ pc' = "cleaned"
    /\ UNCHANGED <<session_state, pandas_version, variant, loaded, suggested>>

\* one run of the duplicate-handling block with the given selection
ApplyDup(dup_strategy, subset_cols) ==
    /\ pc = "clean"
    /\ df' = handle_duplicates(df, dup_strategy, subset_cols)
    /\ trace' = <<[step |-> "dup", strategy |-> dup_strategy, applied |-> TRUE]>>
    /\ pc' = "cleaned"
    /\ UNCHANGED <<session_state, pandas_version, variant, loaded, fill_values, suggested>>

DropRowsAnyNull == ApplyNull("Drop rows with any nulls", NoFill, TRUE)

DropRowsAllNull == ApplyNull("Drop rows with all nulls", NoFill, TRUE)

FillMean == ApplyNull("Fill with column mean (numeric only)", NoFill, TRUE)

FillMedian == ApplyNull("Fill with column median (numeric only)", NoFill, TRUE)

FillMode == ApplyNull("Fill with column mode (all types)", NoFill, TRUE)

ForwardFill == ApplyNull("Forward fill (propagate last valid value)", NoFill, TRUE)

BackwardFill == ApplyNull("Backward fill (propagate next valid value)", NoFill, TRUE)

\* the texts typed for some of the columns with nulls (an empty text is no
\* entry), and the button pressed or not
CustomPerColumn ==
    \E cols \in SUBSET columns_with_nulls(df) :
        \E fv \in [cols -> Literals] :
            \E apply \in BOOLEAN :
                ApplyNull("Custom fill per column", fv, apply)

DropKeepFirst == ApplyDup("Drop all duplicates (keep first)", {})

DropKeepLast == ApplyDup("Drop all duplicates (keep last)", {})

DropOnSubset ==
    \E subset_cols \in SUBSET (1..NCols(df)) :
        ApplyDup("Drop duplicates across selected subset of columns", subset_cols)

NextClean ==
    \/ DropRowsAnyNull
    \/ DropRowsAllNull
    \/ FillMean
    \/ FillMedian
    \/ FillMode
    \/ ForwardFill
    \/ BackwardFill
    \/ CustomPerColumn
    \/ DropKeepFirst
    \/ DropKeepLast
    \/ DropOnSubset

SpecClean == InitClean /\ [][NextClean]_vars


----------------------------------------------------------------------------
(* Properties of the cleaning step *)

AllColumns == 1..Len(ColumnNames)

\* the run applied the null strategy s (and nothing else) to `loaded`
AfterNull(s) ==
    pc = "cleaned" /\ trace = <<[step |-> "null", strategy |-> s, applied |-> TRUE]>>

\* the run applied the duplicate strategy s (and nothing else) to `loaded`
AfterDup(s) ==
    pc = "cleaned" /\ trace = <<[step |-> "dup", strategy |-> s, applied |-> TRUE]>>

\* two rows are equal on the columns cols, two missing cells counting as equal
EqualOn(r1, r2, cols) ==
    \A c \in cols :
        \/ isnull(r1[c]) /\ isnull(r2[c])
        \/ notna(r1[c]) /\ notna(r2[c]) /\ r1[c] = r2[c]

\* the rows at the positions I, in their order
RowsAt(rows, I) ==
    LET F[k \in 0..Len(rows)] ==
            IF k = 0 THEN <<>>
            ELSE IF k \in I THEN Append(F[k - 1], rows[k]) ELSE F[k - 1]
    IN  F[Len(rows)]

FirstOfGroups(rows) ==
    {i \in 1..Len(rows) : ~\E j \in 1..(i - 1) : EqualOn(rows[j], rows[i], AllColumns)}

LastOfGroups(rows) ==
    {i \in 1..Len(rows) :
        ~\E j \in (i + 1)..Len(rows) : EqualOn(rows[j], rows[i], AllColumns)}

\* C2: "Drop all duplicates (keep first)" (resp. keep last) leaves exactly the
\* first (resp. last) row of each group of rows equal on all columns, where two
\* missing cells count as equal, and the surviving rows keep their relative order.
C2_DropDuplicatesKeepsOnePerGroup ==
    /\ AfterDup("Drop all duplicates (keep first)") =>
            df.rows = RowsAt(loaded.rows, FirstOfGroups(loaded.rows))
    /\ AfterDup("Drop all duplicates (keep last)") =>
            df.rows = RowsAt(loaded.rows, LastOfGroups(loaded.rows))

\* a keep-last run on a dataset where a row with a missing cell is repeated, with a
\* different row between the two, so that the order of the survivors shows
C2_Witness ==
    /\ AfterDup("Drop all duplicates (keep last)")
    /\ \E i, j, k \in 1..NRows(loaded) :
          /\ i < k /\ k < j
          /\ loaded.rows[i] = loaded.rows[j]
          /\ loaded.rows[k] # loaded.rows[i]
          /\ \E c \in AllColumns : isnull(loaded.rows[i][c])
    /\ NRows(df) < NRows(loaded)
    /\ NRows(df) >= 2

CompleteRows(rows) ==
    {i \in 1..Len(rows) : \A c \in AllColumns : notna(rows[i][c])}

\* C3: after "Drop rows with any nulls" the dataset has no missing cell in any
\* column, and every input row that had no missing cell is still there (the
\* complete rows survive, in order).
C3_DropAnyLeavesNoNull ==
    AfterNull("Drop rows with any nulls") =>
        /\ \A i \in 1..NRows(df) : \A c \in AllColumns : notna(df.rows[i][c])
        /\ df.rows = RowsAt(loaded.rows, CompleteRows(loaded.rows))

\* a run that dropped a row with one missing cell and kept a complete row
C3_Witness ==
    /\ AfterNull("Drop rows with any nulls")
    /\ \E i \in 1..NRows(loaded) :
          /\ isnull(loaded.rows[i][1])
          /\ notna(loaded.rows[i][2])
    /\ NRows(df) >= 1
    /\ NRows(df) < NRows(loaded)

\* the position of the nearest non-missing cell of s before i (0 when none)
LastValidBefore(s, i) ==
    IF \E j \in 1..(i - 1) : notna(s[j])
    THEN CHOOSE j \in 1..(i - 1) :
            notna(s[j]) /\ \A k \in (j + 1)..(i - 1) : isnull(s[k])
    ELSE 0

\* C4: forward fill replaces each missing cell by the nearest preceding
\* non-missing value of its column, leaves the missing cells before the first
\* value of the column missing, and keeps the row count.
C4_ForwardFillNearestPreceding ==
    AfterNull("Forward fill (propagate last valid value)") =>
        /\ NRows(df) = NRows(loaded)
        /\ \A c \in AllColumns : \A i \in 1..NRows(loaded) :
              LET s == Column(loaded, c)
              IN  df.rows[i][c] =
                    IF notna(s[i]) THEN s[i]
                    ELSE IF LastValidBefore(s, i) = 0 THEN NA
                    ELSE s[LastValidBefore(s, i)]

\* a column that starts missing, then holds a value followed by two missing cells
C4_Witness ==
    /\ AfterNull("Forward fill (propagate last valid value)")
    /\ NRows(loaded) = 4
    /\ \E c \in AllColumns :
          /\ isnull(loaded.rows[1][c]) /\ notna(loaded.rows[2][c])
          /\ isnull(loaded.rows[3][c]) /\ isnull(loaded.rows[4][c])
          /\ isnull(df.rows[1][c]) /\ df.rows[4][c] = loaded.rows[2][c]

NumericColumns(d) == {c \in 1..NCols(d) : d.dtypes[c] \in {"int64", "float64"}}

\* C5: under "Fill with column mean" and "Fill with column median" every cell of
\* a non-numeric column and every non-missing cell of a numeric column is left
\* as it was, and a dataset without a numeric column comes back unchanged (the
\* run ends, no error).
C5_FillMeanMedianFrame ==
    (AfterNull("Fill with column mean (numeric only)")
        \/ AfterNull("Fill with column median (numeric only)")) =>
        /\ NRows(df) = NRows(loaded)
        /\ \A c \in AllColumns \ NumericColumns(loaded) :
              Column(df, c) = Column(loaded, c)
        /\ \A c \in NumericColumns(loaded) : \A i \in 1..NRows(loaded) :
              notna(loaded.rows[i][c]) => df.rows[i][c] = loaded.rows[i][c]
        /\ NumericColumns(loaded) = {} => df = loaded

\* a mean fill that filled a numeric column and left a text column with its
\* missing cell
C5_Witness ==
    /\ AfterNull("Fill with column mean (numeric only)")
    /\ loaded.dtypes = <<"float64", "object">>
    /\ \E i, j, k \in 1..NRows(loaded) :
          /\ isnull(loaded.rows[i][1]) /\ df.rows[i][1] = Num(3, 2)
          /\ loaded.rows[j][1] = Whole(1)
          /\ isnull(loaded.rows[k][2]) /\ isnull(df.rows[k][2])


\* the cells of s that are not missing
Values(s) == {s[i] : i \in {j \in 1..Len(s) : notna(s[j])}}

\* C6: under "Fill with column mode" every missing cell of a column that has a
\* non-missing value is replaced by the most frequent non-missing value of the
\* column (one of them when several are as frequent), and a column without any
\* non-missing value is left as it was; the run ends (no error).
C6_FillModeMostFrequent ==
    AfterNull("Fill with column mode (all types)") =>
        /\ NRows(df) = NRows(loaded)
        /\ \A c \in AllColumns :
              LET s == Column(loaded, c)
              IN  IF Values(s) = {} THEN Column(df, c) = s
                  ELSE \E m \in Values(s) :
                          /\ \A y \in Values(s) : CountOf(s, y) <= CountOf(s, m)
                          /\ \A i \in 1..Len(s) :
                                df.rows[i][c] = IF notna(s[i]) THEN s[i] ELSE m

\* a column whose first value is not its most frequent one, filled, beside a
\* column that holds no value at all
C6_Witness ==
    /\ AfterNull("Fill with column mode (all types)")
    /\ NRows(loaded) = 4
    /\ Column(loaded, 1) = <<Str(<<"y">>), Str(<<"x">>), NA, Str(<<"x">>)>>
    /\ Column(df, 1) = <<Str(<<"y">>), Str(<<"x">>), Str(<<"x">>), Str(<<"x">>)>>
    /\ Values(Column(loaded, 2)) = {}
    /\ Values(Column(df, 2)) = {}

\* the number a typed text stands for, when it stands for one
LiteralNumber(text) ==
    IF text = <<"1", ".", "5">> THEN <<"num", 3, 2>> ELSE NA

\* C7: under "Custom fill per column", once applied, every missing cell of a
\* column with a typed literal is replaced by the literal coerced to the type of
\* the column's values (a number for a column of numbers, the text for a column
\* of text); when the coercion fails, and when the column has no value, the
\* cells are filled with the literal as text; the columns without a literal and
\* the non-missing cells are left as they were, and the run ends (no error).
C7_CustomFillCoercesOrFallsBack ==
    AfterNull("Custom fill per column") =>
        /\ NRows(df) = NRows(loaded)
        /\ \A c \in AllColumns : \A i \in 1..NRows(loaded) :
              LET s == Column(loaded, c)
                  expected ==
                      IF (\E v \in Values(s) : IsNum(v))
                         /\ LiteralNumber(fill_values[c]) # NA
                      THEN LiteralNumber(fill_values[c])
                      ELSE Str(fill_values[c])
              IN  df.rows[i][c] =
                    IF c \in DOMAIN fill_values /\ isnull(s[i]) THEN expected
                    ELSE s[i]

\* a run where the literal of the number column cannot be coerced and the other
\* column, which holds no value, is filled as well
C7_Witness ==
    /\ AfterNull("Custom fill per column")
    /\ DOMAIN fill_values = {1, 2}
    /\ fill_values[1] = <<"x">>
    /\ \E i, j \in 1..NRows(loaded) :
          /\ IsNum(loaded.rows[i][1])
          /\ isnull(loaded.rows[j][1]) /\ df.rows[j][1] = Str(<<"x">>)
    /\ Values(Column(loaded, 2)) = {}
    /\ \A i \in 1..NRows(df) : df.rows[i][2] = Str(fill_values[2])


----------------------------------------------------------------------------
(* Step 3b of test_code4.py: suggest_dtype *)

\* min(50, len(series)): the size of the sample
SampleCap == 50

\* series.nunique() < (0.05 * len(series)), in hundredths
CategoryPercent == 5

Min(a, b) == IF a < b THEN a ELSE b

\* the subsets of S (a set of integers) with k elements
RECURSIVE KSubsets(_, _)
KSubsets(S, k) ==
    IF k = 0 THEN {{}}
    ELSE UNION {{T \cup {x} : T \in KSubsets({y \in S : y > x}, k - 1)} : x \in S}

\* Series.sample(n) raises ValueError when n is larger than the population
sample_raises(v, n) == n > Len(v)

\* Series.sample(n) of the values v: the sets of cells a draw can give
sample(v, n) ==
    {{v[i] : i \in (1..Len(v)) \ E} : E \in KSubsets(1..Len(v), Len(v) - n)}

IsoDateShape(t) ==
    /\ Len(t) = 10
    /\ t[5] = "-" /\ t[8] = "-"
    /\ \A i \in {1, 2, 3, 4, 6, 7, 9, 10} : t[i] \in Digits

\* a year: four digits, 1000 or more (pandas takes a number below 1000 for
\* a number, not a date)
YearShape(t) == Len(t) = 4 /\ AllDigits(t) /\ t[1] # "0"

\* the format pd.to_datetime reads a cell in, "none" when it raises on it: of
\* the model's texts the ISO dates and the four-digit years parse; a bool is a
\* TypeError
datetime_format(c) ==
    IF ~IsStr(c) THEN "none"
    ELSE IF IsoDateShape(c[2]) THEN "%Y-%m-%d"
    ELSE IF YearShape(c[2]) THEN "%Y"
    ELSE "none"

\* pd.to_datetime(cells, errors="raise"): TRUE when it returns, FALSE when it
\* raises.  Values of two formats parse one by one in pandas 1.x and raise in
\* pandas 2.x, which reads all of them in the format of the first.
to_datetime_outcomes(cells, pv) ==
    IF \E c \in cells : datetime_format(c) = "none" THEN {FALSE}
    ELSE IF Cardinality({datetime_format(c) : c \in cells}) <= 1 THEN {TRUE}
    ELSE {pv = "1.x"}

\* what the try block of suggest_dtype can do: TRUE when it reaches its return
datetime_try_outcomes(s, pv) ==
    LET v == dropna_series(s)
        n == Min(SampleCap, Len(s))
    IN  IF sample_raises(v, n) THEN {FALSE}
        ELSE UNION {to_datetime_outcomes(smp, pv) : smp \in sample(v, n)}

\* str(v) of a cell of an object column (astype(str))
astype_str(c) ==
    IF IsStr(c) THEN c[2]
    ELSE IF c = Bool(TRUE) THEN <<"T", "r", "u", "e">>
    ELSE <<"F", "a", "l", "s", "e">>

lower_char(ch) ==
    CASE ch = "F" -> "f" [] ch = "N" -> "n" [] ch = "T" -> "t" [] ch = "Y" -> "y"
      [] OTHER -> ch

\* str.lower()
lower(t) == [i \in 1..Len(t) |-> lower_char(t[i])]

\* str.isnumeric(): at least one character, all of them digits
isnumeric(t) == t # <<>> /\ AllDigits(t)

\* forgetting .str.replace(".", "", 1): "3.5" is not numeric
is_numeric_text_without_replace(s) ==
    \A i \in 1..Len(s) : notna(s[i]) => isnumeric(astype_str(s[i]))

\* series.dropna().astype(str).str.replace(".", "", 1).str.isnumeric().all()
is_numeric_text(s) ==
    \A i \in 1..Len(s) :
        notna(s[i]) => isnumeric(replace_first(astype_str(s[i]), "."))

BooleanTokens ==
    {<<"t", "r", "u", "e">>, <<"f", "a", "l", "s", "e">>, <<"y", "e", "s">>,
     <<"n", "o">>, <<"0">>, <<"1">>}

\* forgetting .str.lower(): "No" is not a token
is_boolean_text_case_sensitive(s) ==
    \A i \in 1..Len(s) : notna(s[i]) => astype_str(s[i]) \in BooleanTokens

\* series.dropna().astype(str).str.lower().isin([...]).all()
is_boolean_text(s) ==
    \A i \in 1..Len(s) : notna(s[i]) => lower(astype_str(s[i])) \in BooleanTokens

\* nunique(dropna=False): a missing cell counted as a value of its own
nunique_with_missing(s) == Cardinality({s[i] : i \in 1..Len(s)})

\* series.nunique(): the distinct non-missing values
nunique(s) == Cardinality({s[i] : i \in {j \in 1..Len(s) : notna(s[j])}})

\* pd.api.types.is_numeric_dtype: a bool dtype is numeric for pandas
is_numeric_dtype(dt) == dt \in {"int64", "float64", "bool"}

is_integer_dtype(dt) == dt = "int64"

is_datetime64_any_dtype(dt) == dt = "datetime64[ns]"

is_bool_dtype(dt) == dt = "bool"

\* the suggestion by the values instead of the dtype: int64 when every cell
\* holds a whole number
numeric_suggestion_by_value(s, dt) ==
    IF \A i \in 1..Len(s) : notna(s[i]) /\ IsNum(s[i]) /\ s[i][3] = 1
    THEN "int64" ELSE "float64"

\* "int64" if pd.api.types.is_integer_dtype(series) else "float64"
numeric_suggestion(s, dt) == IF is_integer_dtype(dt) THEN "int64" ELSE "float64"

\* the options of the per-column type selectbox
TypeOptions == {"int64", "float64", "object", "datetime64[ns]", "bool", "category"}

\* ending on "string" (the name of pandas' own text dtype) instead of "object"
suggest_dtype_string_fallback(s, dt, parsed) ==
    IF is_numeric_dtype(dt) THEN numeric_suggestion(s, dt)
    ELSE IF is_datetime64_any_dtype(dt) THEN "datetime64[ns]"
    ELSE IF is_bool_dtype(dt) THEN "bool"
    ELSE IF parsed THEN "datetime64[ns]"
    ELSE IF is_numeric_text(s) THEN "float64"
    ELSE IF is_boolean_text(s) THEN "bool"
    ELSE IF 100 * nunique(s) < CategoryPercent * Len(s) THEN "category"
    ELSE "string"

\* suggest_dtype(series) for the cells s of dtype dt; parsed: whether the try
\* block (sample, to_datetime) reached its return
suggest_dtype(s, dt, parsed) ==
    IF is_numeric_dtype(dt) THEN numeric_suggestion(s, dt)
    ELSE IF is_datetime64_any_dtype(dt) THEN "datetime64[ns]"
    ELSE IF is_bool_dtype(dt) THEN "bool"
    ELSE IF parsed THEN "datetime64[ns]"
    ELSE IF is_numeric_text(s) THEN "float64"
    ELSE IF is_boolean_text(s) THEN "bool"
    ELSE IF 100 * nunique(s) < CategoryPercent * Len(s) THEN "category"
    ELSE "object"

----------------------------------------------------------------------------
(* The columns suggest_dtype is applied to *)

\* the cells of an object column: text, bool and missing
ObjectCells ==
    {NA, Bool(TRUE), Bool(FALSE),
     Str(<<"1">>), Str(<<"0">>), Str(<<"3", ".", "5">>), Str(<<"2", "0", "2", "0">>),
     Str(<<"y", "e", "s">>), Str(<<"N", "o">>), Str(<<"r", "e", "d">>),
     Str(<<"2", "0", "2", "0", "-", "0", "1", "-", "0", "1">>)}

\* the cells a column of each dtype can hold: no missing cell in an int64 or
\* bool column
CellsOfDtype(dt) ==
    CASE dt = "int64" -> {Whole(1), Whole(2)}
      [] dt = "float64" -> {NA, Whole(1), Num(3, 2)}
      [] dt = "bool" -> {Bool(TRUE), Bool(FALSE)}
      [] dt = "datetime64[ns]" -> {NA, Ts(<<1970, 1, 1, 1>>)}
      [] OTHER -> ObjectCells

Dtypes == {"int64", "float64", "bool", "datetime64[ns]", "object"}

\* the one-column dataset of dtype dt with the cells s
OneColumn(dt, s) ==
    [columns |-> <<"val">>, dtypes |-> <<dt>>, rows |-> [i \in 1..Len(s) |-> <<s[i]>>]]

\* n cells c
Repeat(c, n) == [i \in 1..n |-> c]

Date == Str(<<"2", "0", "2", "0", "-", "0", "1", "-", "0", "1">>)

\* the number of rows from which one distinct value is less than 5% of them
CategoryRows == (100 \div CategoryPercent) + 1

\* text columns of more rows than the short ones: one more value than the
\* sample holds, and around the 5% threshold of the category rule
LongColumns ==
    {Repeat(Date, SampleCap) \o <<c>> : c \in {Date, NA, Str(<<"r", "e", "d">>)}}
    \cup {Repeat(Str(<<"r", "e", "d">>), n) \o t :
            n \in {CategoryRows - 2, CategoryRows - 1, CategoryRows},
            t \in {<<>>, <<NA>>, <<Str(<<"N", "o">>)>>}}

InferDatasets ==
    UNION {{OneColumn(dt, s) : s \in SeqsUpTo(CellsOfDtype(dt), MaxLen)} : dt \in Dtypes}
    \cup {OneColumn("object", s) : s \in LongColumns}

InitInfer ==
    /\ pandas_version \in PandasVersions
    /\ session_state = NoSession
    /\ variant = "test_code4"
    /\ pc = "suggest"
    /\ df \in InferDatasets
    /\ loaded = df
    /\ trace = <<>>
    /\ fill_values = NoFill
    /\ suggested = <<>>

----------------------------------------------------------------------------
(* "Apply Type Conversions" of test_code4.py, one column at a time.  The   *)
(* result of a conversion is a record [cells, dtype, warned]: the cells and *)
(* the dtype of the column afterwards, and whether the except branch ran    *)
(* (st.warning) and left the column as it was.  A Timestamp is              *)
(* Ts(<<year, month, day, nanoseconds of the day>>).                        *)

Converted(cells, dtype) == [cells |-> cells, dtype |-> dtype, warned |-> FALSE]

\* the assignment df[col] = ... did not happen
Unconverted(s, dt, warned) == [cells |-> s, dtype |-> dt, warned |-> warned]

\* int(x) of a number cell: towards zero
trunc(c) == IF c[2] >= 0 THEN c[2] \div c[3] ELSE -((-c[2]) \div c[3])

\* the Timestamp pd.to_datetime reads from a text it parses
parse_datetime(t) ==
    IF IsoDateShape(t)
    THEN Ts(<<DigitsVal(SubSeq(t, 1, 4)), DigitsVal(SubSeq(t, 6, 7)),
              DigitsVal(SubSeq(t, 9, 10)), 0>>)
    ELSE Ts(<<DigitsVal(t), 1, 1, 0>>)

\* pd.to_datetime of a number: nanoseconds since 1970-01-01 (less than a day)
epoch_ns(c) == Ts(<<1970, 1, 1, trunc(c)>>)

\* pd.to_datetime(df[col], errors="coerce") on a text column: what does not
\* parse becomes NaT.  pandas 2.x reads every value in the format guessed from
\* the first value (when it has one), pandas 1.x reads the values one by one.
to_datetime_coerce(s, pv) ==
    LET v   == dropna_series(s)
        ref == IF v = <<>> THEN "none" ELSE datetime_format(v[1])
        one(c) ==
            IF isnull(c) \/ datetime_format(c) = "none" THEN NA
            ELSE IF pv = "2.x" /\ ref # "none" /\ datetime_format(c) # ref THEN NA
            ELSE parse_datetime(c[2])
    IN  [i \in 1..Len(s) |-> one(s[i])]

\* t == "datetime64[ns]".  A bool column is a TypeError (dtype bool cannot be
\* converted); a bool value inside an object column is either coerced to NaT
\* or the same TypeError, by release.
convert_datetime(s, dt, pv) ==
    IF is_datetime64_any_dtype(dt) THEN {Converted(s, dt)}
    ELSE IF is_bool_dtype(dt) THEN {Unconverted(s, dt, TRUE)}
    ELSE IF is_numeric_dtype(dt)
    THEN {Converted([i \in 1..Len(s) |-> IF isnull(s[i]) THEN NA ELSE epoch_ns(s[i])],
                    "datetime64[ns]")}
    ELSE {Converted(to_datetime_coerce(s, pv), "datetime64[ns]")}
         \cup (IF \E i \in 1..Len(s) : IsBool(s[i])
               THEN {Unconverted(s, dt, TRUE)} ELSE {})

\* the decimal digits of a natural number
RECURSIVE digits_of(_)
digits_of(n) ==
    LET d == CHOOSE ch \in Digits : DigitVal(ch) = n % 10
    IN  IF n < 10 THEN <<d>> ELSE digits_of(n \div 10) \o <<d>>

\* str(v) of a cell of a column of dtype dt (astype(str)): an int64 prints its
\* digits, a float64 always with a "." (its decimals are cut after the third
\* here), a missing cell prints "nan", a Timestamp its date (and its time of
\* day, left out here)
str_cell(c, dt) ==
    IF isnull(c) THEN <<"n", "a", "n">>
    ELSE IF IsStr(c) \/ IsBool(c) THEN astype_str(c)
    ELSE IF IsNum(c)
    THEN LET a    == Abs(c[2])
             sign == IF c[2] < 0 THEN <<"-">> ELSE <<>>
             frac == ((a % c[3]) * 1000) \div c[3]
         IN  IF is_integer_dtype(dt) THEN sign \o digits_of(a)
             ELSE sign \o digits_of(a \div c[3]) \o <<".">>
                    \o (IF frac = 0 THEN <<"0">>
                        ELSE SubSeq(digits_of(1000 + frac), 2, 4))
    ELSE digits_of(c[2][1]) \o <<"-">> \o SubSeq(digits_of(100 + c[2][2]), 2, 3)
            \o <<"-">> \o SubSeq(digits_of(100 + c[2][3]), 2, 3)

\* .map({"true": True, "false": False, "yes": True, "no": False, "1": True,
\* "0": False}): NaN for every other text
map_bool(t) ==
    IF t \in {<<"t", "r", "u", "e">>, <<"y", "e", "s">>, <<"1">>} THEN Bool(TRUE)
    ELSE IF t \in {<<"f", "a", "l", "s", "e">>, <<"n", "o">>, <<"0">>} THEN Bool(FALSE)
    ELSE NA

\* t == "bool": df[col].astype(str).str.lower().map({...}).astype("boolean")
convert_bool(s, dt) ==
    {Converted([i \in 1..Len(s) |-> map_bool(lower(str_cell(s[i], dt)))], "boolean")}

\* float(v) and int(v) of one cell, RAISE when the cast fails: a missing cell
\* has no int (NaT as of pandas 2.x), a Timestamp has no float, and its int is
\* its nanoseconds since 1970-01-01
cast_cell(c, t) ==
    IF isnull(c) THEN (IF t = "float64" THEN NA ELSE RAISE)
    ELSE IF IsBool(c) THEN Whole(IF c[2] THEN 1 ELSE 0)
    ELSE IF IsNum(c) THEN (IF t = "float64" THEN c ELSE Whole(trunc(c)))
    ELSE IF IsStr(c)
    THEN (IF t = "float64" THEN float(c[2])
          ELSE IF c[2] # <<>> /\ AllDigits(c[2]) THEN Whole(DigitsVal(c[2]))
          ELSE RAISE)
    ELSE IF t = "int64" THEN Whole(c[2][4])
    ELSE RAISE

\* the else branch: df[col].astype(t, errors="ignore") for int64, float64 and
\* object.  A cast that fails on one cell returns the column as it was.
convert_astype(s, dt, t) ==
    IF t = "object" THEN {Converted(s, "object")}
    ELSE LET cast == [i \in 1..Len(s) |-> cast_cell(s[i], t)]
         IN  IF \E i \in 1..Len(s) : cast[i] = RAISE
             THEN {Unconverted(s, dt, FALSE)}
             ELSE {Converted(cast, t)}

\* the body of the loop of "Apply Type Conversions" for one column
convert_column(s, dt, t, pv) ==
    IF t = "datetime64[ns]" THEN convert_datetime(s, dt, pv)
    ELSE IF t = "bool" THEN convert_bool(s, dt)
    ELSE IF t = "category" THEN {Converted(s, "category")}
    ELSE convert_astype(s, dt, t)

\* the suggested types of the columns of d, one tuple per way the samples can
\* be drawn
suggest_columns(d, pv) ==
    {[c \in 1..NCols(d) |-> suggest_dtype(Column(d, c), d.dtypes[c], parsed[c])] :
        parsed \in {f \in [1..NCols(d) -> BOOLEAN] :
                      \A c \in 1..NCols(d) : f[c] \in datetime_try_outcomes(Column(d, c), pv)}}

\* for col in df.columns: suggested_type = suggest_dtype(df[col])
SuggestTypes ==
    /\ pc = "suggest"
    /\ suggested' \in suggest_columns(df, pandas_version)
    /\ pc' = "suggested"
    /\ UNCHANGED <<session_state, pandas_version, variant, df, loaded, trace, fill_values>>

\* a widget of the page changes: streamlit runs the script again on the same
\* data and the loop calls suggest_dtype again
SuggestAgain ==
    /\ pc = "suggested"
    /\ suggested' \in suggest_columns(df, pandas_version)
    /\ pc' = "suggested"
    /\ UNCHANGED <<session_state, pandas_version, variant, df, loaded, trace, fill_values>>

\* the button "Apply Type Conversions" with the types col_types selected:
\* every column is converted in its own try block
ApplyTypeConversions ==
    /\ pc = "suggested"
    /\ \E col_types \in [1..NCols(df) -> TypeOptions] :
          \E res \in [1..NCols(df) -> UNION {convert_column(Column(df, c), df.dtypes[c],
                                    col_types[c], pandas_version) : c \in 1..NCols(df)}] :
              /\ \A c \in 1..NCols(df) :
                    res[c] \in convert_column(Column(df, c), df.dtypes[c], col_types[c],
                                              pandas_version)
              /\ df' = WithColumns(df, [c \in 1..NCols(df) |-> res[c].cells],
                                       [c \in 1..NCols(df) |-> res[c].dtype])
              /\ trace' = Append(trace,
                    Entry("convert", col_types, [c \in 1..NCols(df) |-> res[c].warned]))
    /\ pc' = "converted"
    /\ UNCHANGED <<session_state, pandas_version, variant, loaded, fill_values, suggested>>

NextInfer ==
    \/ SuggestTypes
    \/ SuggestAgain
    \/ ApplyTypeConversions

SpecInfer == InitInfer /\ [][NextInfer]_vars


----------------------------------------------------------------------------
(* Properties of suggest_dtype *)

\* suggest_dtype has run on the one column of the dataset
Suggested == pc = "suggested" /\ NCols(df) = 1

TheColumn == Column(df, 1)

TheDtype == df.dtypes[1]

AllWhole(s) == \A i \in 1..Len(s) : notna(s[i]) => s[i][3] = 1

\* C8 as stated: a column stored as numbers is suggested Integer when all its
\* values are whole numbers and Float when one has a fractional part.
C8_Original ==
    (Suggested /\ TheDtype \in {"int64", "float64"} /\ Values(TheColumn) # {}) =>
        suggested[1] = IF AllWhole(TheColumn) THEN "int64" ELSE "float64"

\* C8: a column stored as numbers is suggested Integer when it is stored as
\* integers (all its values are then whole and none is missing) and Float when
\* it is stored as floating point, also when it holds only whole values, with
\* or without missing cells.
C8_NumericSuggestionFollowsStorage ==
    Suggested =>
        /\ TheDtype = "int64" =>
              /\ suggested[1] = "int64"
              /\ AllWhole(TheColumn) /\ \A i \in 1..Len(TheColumn) : notna(TheColumn[i])
        /\ TheDtype = "float64" => suggested[1] = "float64"

\* a float64 column of whole values and a missing cell, suggested float64
C8_Witness ==
    /\ Suggested
    /\ TheDtype = "float64"
    /\ Values(TheColumn) = {Whole(1)}
    /\ \E i \in 1..Len(TheColumn) : isnull(TheColumn[i])
    /\ suggested[1] = "float64"

\* the texts of the model that write a number, and those with a fractional part
NumericTexts ==
    {<<"1">>, <<"0">>, <<"3", ".", "5">>, <<"2", "0", "2", "0">>}

FractionalTexts == {<<"3", ".", "5">>}

\* the numeric texts pd.to_datetime reads as a date (a year)
YearTexts == {<<"2", "0", "2", "0">>}

\* a text column made up entirely of numeric strings
AllNumericStrings(s) ==
    /\ s # <<>>
    /\ \A i \in 1..Len(s) : IsStr(s[i]) /\ s[i][2] \in NumericTexts

\* C9 as stated: a column made up entirely of numeric strings is suggested
\* Float when a value has a fractional part and Integer when none has.
C9_Original ==
    (Suggested /\ TheDtype = "object" /\ AllNumericStrings(TheColumn)) =>
        suggested[1] =
            IF \E i \in 1..Len(TheColumn) : TheColumn[i][2] \in FractionalTexts
            THEN "float64" ELSE "int64"

\* C9: a column made up entirely of numeric strings (digits with at most one
\* decimal point) is suggested Float, when a value has a fractional part and
\* when none has, unless the timestamp rule takes it first: made up of years
\* only it is suggested Timestamp.  It is never suggested Integer.
C9_NumericStringsSuggestFloat ==
    (Suggested /\ TheDtype = "object" /\ AllNumericStrings(TheColumn)) =>
        suggested[1] =
            IF \A i \in 1..Len(TheColumn) : TheColumn[i][2] \in YearTexts
            THEN "datetime64[ns]" ELSE "float64"

\* a column of numeric strings, one of them with a fractional part and one
\* without, suggested float64
C9_Witness ==
    /\ Suggested
    /\ TheDtype = "object"
    /\ AllNumericStrings(TheColumn)
    /\ Str(<<"3", ".", "5">>) \in Range(TheColumn)
    /\ Str(<<"1">>) \in Range(TheColumn)
    /\ suggested[1] = "float64"

\* the cells of the model that are, case-folded, one of "true", "false", "yes",
\* "no", "0", "1"
TokenCells ==
    {Bool(TRUE), Bool(FALSE), Str(<<"1">>), Str(<<"0">>), Str(<<"y", "e", "s">>),
     Str(<<"N", "o">>)}

DigitTokenCells == {Str(<<"1">>), Str(<<"0">>)}

\* C10 as stated: a column not stored as numbers or timestamps in which each
\* value is one of the six tokens is suggested Boolean, a text column holding
\* only "0" and "1" included.
C10_Original ==
    (Suggested /\ TheDtype = "object" /\ Values(TheColumn) # {}
        /\ Values(TheColumn) \subseteq TokenCells) =>
        suggested[1] = "bool"

\* C10: a column not stored as numbers or timestamps in which each value,
\* case-folded, is one of the six tokens and some value is not "0" or "1" is
\* suggested Boolean; a text column holding only "0" and "1" is taken by the
\* numeric-string rule first and is suggested Float.
C10_TokensSuggestBoolean ==
    (Suggested /\ TheDtype = "object" /\ Values(TheColumn) # {}
        /\ Values(TheColumn) \subseteq TokenCells) =>
        suggested[1] =
            IF Values(TheColumn) \subseteq DigitTokenCells THEN "float64" ELSE "bool"

\* a text column holding "No" in capitals, "1" and a missing cell, suggested bool
C10_Witness ==
    /\ Suggested
    /\ TheDtype = "object"
    /\ Values(TheColumn) = {Str(<<"N", "o">>), Str(<<"1">>)}
    /\ \E i \in 1..Len(TheColumn) : isnull(TheColumn[i])
    /\ suggested[1] = "bool"


----------------------------------------------------------------------------
(* One run of each script: load, then the cleaning steps in the script's order *)

Variants == {"piping_data", "test_code1", "test_code2", "test_code4"}

\* df = pd.DataFrame()
EmptyFrame == [columns |-> <<>>, dtypes |-> <<>>, rows |-> <<>>]

\* files of three rows whose first two rows are equal: the duplicates block of
\* test_code2.py shows its selectbox only when df.duplicated().any()
RepeatedRowDatasets ==
    {read_csv(<<r, r, s>>) : r \in NumCells \X FewTextCells, s \in NumCells \X FewTextCells}

\* the files a run loads: a column of numbers and a column of text
PipeDatasets ==
    {read_csv(rows) : rows \in UNION {[1..k -> (NumCells \X FewTextCells)] : k \in 1..PipeRows}}
        \cup RepeatedRowDatasets

\* the block the script runs first after the load: test_code2.py handles the
\* duplicates before the nulls, the other three the nulls before the duplicates
first_step(v) == IF v = "test_code2" THEN "dups" ELSE "nulls"

\* df.duplicated().any()
duplicated_any(d) == duplicated_sum(d) > 0

\* df.isnull().sum().sum()
isnull_sum(d) ==
    Cardinality({<<i, c>> \in (1..NRows(d)) \X (1..NCols(d)) : isnull(d.rows[i][c])})

\* the null selectbox of piping_data.py, test_code1.py and test_code2.py
simple_nulls(d, null_strategy) ==
    CASE null_strategy \in {"Drop rows", "Drop Rows"} -> dropna(d, "any")
      [] null_strategy \in {"Forward fill", "Forward Fill"} -> ffill(d)
      [] null_strategy \in {"Backward fill", "Backward Fill"} -> bfill(d)
      [] OTHER -> d

Init ==
    /\ pandas_version \in PandasVersions
    /\ session_state = NoSession
    /\ variant \in Variants
    /\ pc = "load"
    /\ df = EmptyFrame
    /\ loaded = EmptyFrame
    /\ trace = <<>>
    /\ fill_values = NoFill
    /\ suggested = <<>>

\* Step 1 with a file that loads
LoadData ==
    /\ pc = "load"
    /\ \E d \in PipeDatasets :
          /\ df' = d
          /\ loaded' = d
    /\ pc' = first_step(variant)
    /\ UNCHANGED <<session_state, pandas_version, variant, trace, fill_values, suggested>>

\* the data sources of the selectbox that fetch or read something
Sources(v) ==
    IF v = "test_code2" THEN {"CSV", "Excel", "JSON", "TSV", "API", "Web Scraping"}
    ELSE {"Upload File", "Paste JSON", "API Request", "Web Scraping"}

\* the ways an acquisition fails: the request raises (network error), the
\* server answers with another status than 200, the content does not parse
Failures(source) ==
    IF source \in {"API", "API Request", "Web Scraping"}
    THEN {"network error", "non-200 response", "unparsable content"}
    ELSE {"unparsable content"}

\* what the load step does on a failed acquisition: "st.error" (the failure is
\* caught or tested and reported, df stays empty), "exception" (nothing catches
\* it: the run stops on the traceback) or "loaded" (a DataFrame is built from
\* what was received)
load_outcomes(v, source, failure) ==
    IF v = "test_code2"
    THEN CASE source = "API" ->
                IF failure = "non-200 response" THEN {"st.error"} ELSE {"exception"}
           [] source = "Web Scraping" ->
                IF failure = "network error" THEN {"exception"} ELSE {"loaded"}
           [] OTHER -> {"exception"}
    ELSE CASE source = "Upload File" -> {"exception"}
           [] source = "Web Scraping" /\ failure = "non-200 response" ->
                {"st.error", "loaded"}
           [] OTHER -> {"st.error"}

\* the DataFrame built from the body of an error page: in test_code2.py the
\* texts of its elements in the column "Scraped Data" (none, or some), in the
\* other scripts a table of the page
scraped(v) ==
    IF v = "test_code2"
    THEN {[columns |-> <<"Scraped Data">>, dtypes |-> <<"object">>,
           rows |-> [i \in 1..k |-> <<Str(<<"x">>)>>]] : k \in 0..PipeRows}
    ELSE {read_csv(<<<<Whole(1), Str(<<"x">>)>>>>)}

\* Step 1 with an acquisition that fails
LoadFails ==
    /\ pc = "load"
    /\ \E source \in Sources(variant) :
          \E failure \in Failures(source) :
              \E outcome \in load_outcomes(variant, source, failure) :
                  /\ trace' = <<Entry("load", <<source, failure, outcome>>, FALSE)>>
                  /\ IF outcome = "loaded"
                     THEN /\ df' \in scraped(variant)
                          /\ loaded' = df'
                          /\ pc' = first_step(variant)
                     ELSE /\ UNCHANGED <<df, loaded>>
                          /\ pc' = IF outcome = "exception" THEN "aborted" ELSE "no_data"
    /\ UNCHANGED <<session_state, pandas_version, variant, fill_values, suggested>>

\* Step 1 with nothing uploaded or typed: the run ends on "Please load your
\* data to proceed."
LoadNothing ==
    /\ pc = "load"
    /\ pc' = "no_data"
    /\ UNCHANGED <<session_state, pandas_version, variant, df, loaded, trace, fill_values, suggested>>

\* piping_data.py, test_code1.py: "# Null value handling"
SimpleNullStep ==
    /\ variant \in {"piping_data", "test_code1"}
    /\ pc = "nulls"
    /\ \E null_strategy \in {"Drop rows", "Forward fill", "Backward fill"} :
          /\ df' = simple_nulls(df, null_strategy)
          /\ trace' = Append(trace, Entry("null", null_strategy, TRUE))
    /\ pc' = "dups"
    /\ UNCHANGED <<session_state, pandas_version, variant, loaded, fill_values, suggested>>

\* piping_data.py, test_code1.py: "# Duplicates handling"
SimpleDupStep ==
    /\ variant \in {"piping_data", "test_code1"}
    /\ pc = "dups"
    /\ \E dup_strategy \in {"Drop duplicates", "Keep all"} :
          /\ df' = IF dup_strategy = "Drop duplicates"
                   THEN drop_duplicates(df, 1..NCols(df), "first") ELSE df
          /\ trace' = Append(trace,
                        Entry("dup", dup_strategy, dup_strategy = "Drop duplicates"))
    /\ pc' = "cleaned"
    /\ UNCHANGED <<session_state, pandas_version, variant, loaded, fill_values, suggested>>

\* test_code2.py: the duplicates block, which comes first
Code2DupStep ==
    /\ variant = "test_code2"
    /\ pc = "dups"
    /\ IF duplicated_any(df)
       THEN \E dup_action \in {"Drop Duplicates", "Retain Duplicates"} :
               /\ df' = IF dup_action = "Drop Duplicates"
                        THEN drop_duplicates(df, 1..NCols(df), "first") ELSE df
               /\ trace' = Append(trace,
                             Entry("dup", dup_action, dup_action = "Drop Duplicates"))
       ELSE /\ df' = df
            /\ trace' = Append(trace, Entry("dup", "No duplicates found.", FALSE))
    /\ pc' = "nulls"
    /\ UNCHANGED <<session_state, pandas_version, variant, loaded, fill_values, suggested>>

\* test_code2.py: the missing values block, which comes second
Code2NullStep ==
    /\ variant = "test_code2"
    /\ pc = "nulls"
    /\ IF isnull_sum(df) > 0
       THEN \E null_strategy \in {"Forward Fill", "Backward Fill", "Drop Rows"} :
               /\ df' = simple_nulls(df, null_strategy)
               /\ trace' = Append(trace, Entry("null", null_strategy, TRUE))
       ELSE /\ df' = df
            /\ trace' = Append(trace, Entry("null", "No missing values found.", FALSE))
    /\ pc' = "cleaned"
    /\ UNCHANGED <<session_state, pandas_version, variant, loaded, fill_values, suggested>>

\* test_code4.py: "Null Value Handling"
Code4NullStep ==
    /\ variant = "test_code4"
    /\ pc = "nulls"
    /\ \E null_strategy \in NullStrategies :
          \E cols \in SUBSET columns_with_nulls(df) :
              \E fv \in [cols -> Literals] :
                  \E apply \in BOOLEAN :
                      /\ null_strategy = "Custom fill per column" \/ (fv = NoFill /\ apply)
                      /\ df' = handle_nulls(df, null_strategy, fv, apply)
                      /\ fill_values' = fv
                      /\ trace' = Append(trace,
                            Entry("null", null_strategy,
                                  null_strategy # "Do nothing" /\ apply))
    /\ pc' = "dups"
    /\ UNCHANGED <<session_state, pandas_version, variant, loaded, suggested>>

\* test_code4.py: "Duplicate Handling"
Code4DupStep ==
    /\ variant = "test_code4"
    /\ pc = "dups"
    /\ \E dup_strategy \in DupStrategies :
          \E subset_cols \in SUBSET (1..NCols(df)) :
              /\ dup_strategy = "Drop duplicates across selected subset of columns"
                    \/ subset_cols = {}
              /\ df' = handle_duplicates(df, dup_strategy, subset_cols)
              /\ trace' = Append(trace,
                    Entry("dup", dup_strategy,
                          /\ dup_strategy # "Do nothing"
                          /\ (dup_strategy = "Drop duplicates across selected subset of columns"
                                => subset_cols # {})))
    /\ pc' = "cleaned"
    /\ UNCHANGED <<session_state, pandas_version, variant, loaded, fill_values, suggested>>

\* test_code4.py, Step 3b: the suggestions for the cleaned columns
Code4SuggestStep ==
    /\ variant = "test_code4"
    /\ pc = "cleaned"
    /\ suggested' \in suggest_columns(df, pandas_version)
    /\ pc' = "suggested"
    /\ UNCHANGED <<session_state, pandas_version, variant, df, loaded, trace, fill_values>>

\* a widget changes and streamlit runs the script again from its first line
Rerun ==
    /\ pc \in {"cleaned", "no_data", "aborted", "suggested", "converted"}
    /\ pc' = "load"
    /\ df' = EmptyFrame
    /\ loaded' = EmptyFrame
    /\ trace' = <<>>
    /\ fill_values' = NoFill
    /\ suggested' = <<>>
    /\ UNCHANGED <<session_state, pandas_version, variant>>

Next ==
    \/ LoadData
    \/ LoadNothing
    \/ LoadFails
    \/ SimpleNullStep
    \/ SimpleDupStep
    \/ Code2DupStep
    \/ Code2NullStep
    \/ Code4NullStep
    \/ Code4DupStep
    \/ Code4SuggestStep
    \/ ApplyTypeConversions
    \/ Rerun

Spec == Init /\ [][Next]_vars

\* C1: in every variant, when a null-handling strategy and a duplicate-handling
\* strategy are both applied in one run, the null-handling step is executed
\* before the duplicate-handling step.
C1_NullBeforeDuplicates ==
    \A i, j \in 1..Len(trace) :
        (trace[i].step = "null" /\ trace[i].applied
            /\ trace[j].step = "dup" /\ trace[j].applied) => i < j

\* C15: for every data source in every variant, a failed acquisition leaves the
\* dataset in its empty state, with no partial dataset, the run shows an error
\* and no profiling, cleaning, conversion or chart step runs on it.
C15_FailedLoadLeavesNoData ==
    (trace # <<>> /\ trace[1].step = "load" /\ ~trace[1].applied) =>
        /\ df = EmptyFrame
        /\ Len(trace) = 1
        /\ pc \in {"no_data", "aborted"}

\* the dataset of this state is the one handed to st.download_button and to the
\* chart loop: the cleaning steps of the run are over
ReachesExport == pc \in {"cleaned", "suggested", "converted"}

\* the duplicate strategies that drop over all columns
DropOverAllColumns ==
    {"Drop duplicates", "Drop Duplicates",
     "Drop all duplicates (keep first)", "Drop all duplicates (keep last)"}

DropAllSelected ==
    \E i \in 1..Len(trace) :
        trace[i].step = "dup" /\ trace[i].strategy \in DropOverAllColumns

\* no two rows equal on all columns, two missing cells being equal
NoEqualRows(d) == \A i, j \in 1..NRows(d) : d.rows[i] = d.rows[j] => i = j

\* C21: in every variant, whenever a drop-duplicates strategy over all columns
\* is selected, the dataset that reaches the export and the charts holds no two
\* rows equal on all columns (missing cells equal), whatever null handling or
\* type conversion is applied in the same run.
C21_NoDuplicatesReachExport ==
    (ReachesExport /\ DropAllSelected) => NoEqualRows(df)

----------------------------------------------------------------------------
(* Further properties of suggest_dtype *)

\* C11: a column with zero non-missing values (all cells missing, or zero
\* rows) is suggested Text.  (That suggest_dtype raises on no column is C13.)
C11_NoValuesSuggestText ==
    (Suggested /\ Values(TheColumn) = {}) => suggested[1] = "object"

\* C12: two invocations of suggest_dtype on the same column return the same
\* type, whichever values the sampling step draws.
C12_SuggestionIndependentOfSample ==
    [][(pc = "suggested" /\ pc' = "suggested") => suggested' = suggested]_vars

\* none of the rules before the final return applies to the cells s of dtype dt
NoRuleMatches(s, dt) ==
    /\ ~is_numeric_dtype(dt) /\ ~is_datetime64_any_dtype(dt) /\ ~is_bool_dtype(dt)
    /\ TRUE \notin datetime_try_outcomes(s, pandas_version)
    /\ ~is_numeric_text(s)
    /\ ~is_boolean_text(s)
    /\ ~(100 * nunique(s) < CategoryPercent * Len(s))

\* C13: on every column suggest_dtype returns (no exception leaves it), its
\* result is one of the six types int64, float64, object, datetime64[ns], bool,
\* category, which are the options of the type selector, and it is object
\* (Text) whenever no earlier rule matches.
C13_SuggestionAlwaysOneOfSix ==
    /\ pc = "suggest" => suggest_columns(df, pandas_version) # {}
    /\ pc = "suggested" =>
          \A c \in 1..NCols(df) :
              /\ suggested[c] \in TypeOptions
              /\ NoRuleMatches(Column(df, c), df.dtypes[c]) => suggested[c] = "object"

\* a text column of a word and a missing cell: the sample raises, no rule
\* matches, the suggestion is object
C13_Witness ==
    /\ Suggested
    /\ TheDtype = "object"
    /\ Values(TheColumn) = {Str(<<"r", "e", "d">>)}
    /\ \E i \in 1..Len(TheColumn) : isnull(TheColumn[i])
    /\ NoRuleMatches(TheColumn, TheDtype)
    /\ suggested[1] = "object"

\* C17: for a text column with missing cells the timestamp rule samples the
\* non-missing values only, min(50, number of non-missing values) of them, and
\* the column is suggested Timestamp when every sampled value parses: so is a
\* column of fewer than 50 rows whose values are all valid dates and which has
\* a missing cell.
C17_DatesWithMissingSuggestTimestamp ==
    (Suggested /\ TheDtype = "object"
        /\ Values(TheColumn) = {Date}
        /\ \E i \in 1..Len(TheColumn) : isnull(TheColumn[i])) =>
        suggested[1] = "datetime64[ns]"

\* C18: a column whose non-missing values are all stored as booleans is
\* suggested Boolean: the numeric rule, tried first, does not take it.
C18_BooleanStorageSuggestsBoolean ==
    (Suggested /\ Values(TheColumn) # {}
        /\ \A i \in 1..Len(TheColumn) : notna(TheColumn[i]) => IsBool(TheColumn[i])) =>
        suggested[1] = "bool"

\* the column reaches the category rule: it is not stored as numbers,
\* timestamps or booleans, its sample never parses as timestamps, and it is
\* neither numeric text nor boolean text
ReachesCategoryRule(s, dt) ==
    /\ ~is_numeric_dtype(dt) /\ ~is_datetime64_any_dtype(dt) /\ ~is_bool_dtype(dt)
    /\ TRUE \notin datetime_try_outcomes(s, pandas_version)
    /\ ~is_numeric_text(s)
    /\ ~is_boolean_text(s)

\* C19: a column that matches none of the numeric, timestamp and boolean rules
\* is suggested Category exactly when its distinct non-missing values are
\* fewer than 5% (one in twenty) of its rows, missing rows counted, and Text
\* otherwise; a column of zero rows is not suggested Category.
C19_CategoryBelowFivePercent ==
    Suggested =>
        /\ ReachesCategoryRule(TheColumn, TheDtype) =>
              suggested[1] = IF 20 * Cardinality(Values(TheColumn)) < Len(TheColumn)
                             THEN "category" ELSE "object"
        /\ Len(TheColumn) = 0 => suggested[1] # "category"

\* a word in every row but one, which is missing: one distinct value in the
\* smallest number of rows that makes it less than 5%, suggested category
C19_Witness ==
    /\ Suggested
    /\ Len(TheColumn) = CategoryRows
    /\ Cardinality(Values(TheColumn)) = 1
    /\ \E i \in 1..Len(TheColumn) : isnull(TheColumn[i])
    /\ ReachesCategoryRule(TheColumn, TheDtype)
    /\ suggested[1] = "category"

----------------------------------------------------------------------------
(* Step 4 of test_code1.py, test_code2.py and test_code4.py: the charts *)

\* the largest num_charts the chart step is followed with
MaxCharts == 2

chart_types == {"Bar", "Line", "Scatter", "Histogram", "Box"}

\* the options of the axis and color selectboxes: ["None"] + list(df.columns)
axis_options(d) == {"None"} \cup Range(d.columns)

\* the dictionaries chart_configs can hold for the dataset d
ChartConfigs(d) ==
    [type : chart_types, x : axis_options(d), y : axis_options(d),
     color : axis_options(d)]

\* if config['x'] != "None" and config['y'] != "None": the chart is drawn with
\* px.bar, px.line, px.scatter, px.histogram or px.box; else st.warning
chart_rendered(config) == config.x # "None" /\ config.y # "None"

\* the scripts with the chart_configs loop
ChartVariants == {"test_code1", "test_code2", "test_code4"}

InitCharts ==
    /\ pandas_version \in PandasVersions
    /\ session_state = NoSession
    /\ variant \in ChartVariants
    /\ pc = "charts"
    /\ df = read_csv(<<<<Whole(1), Str(<<"x">>)>>, <<Whole(2), NA>>>>)
    /\ loaded = df
    /\ trace = <<>>
    /\ fill_values = NoFill
    /\ suggested = <<>>

\* the configuration loop and the display loop: every configuration, in order,
\* is either drawn or skipped with a warning
DisplayCharts ==
    /\ pc = "charts"
    /\ \E num_charts \in 1..MaxCharts :
          \E chart_configs \in [1..num_charts -> ChartConfigs(df)] :
              trace' = [i \in 1..num_charts |->
                          Entry("chart", chart_configs[i], chart_rendered(chart_configs[i]))]
    /\ pc' = "charts_done"
    /\ UNCHANGED <<session_state, pandas_version, variant, df, loaded, fill_values, suggested>>

NextCharts == DisplayCharts

SpecCharts == InitCharts /\ [][NextCharts]_vars

\* the axes a chart of the configuration needs are given: x and y for bar, line
\* and scatter, one of them for the single-axis kinds histogram and box
RequiredAxesGiven(config) ==
    IF config.type \in {"Histogram", "Box"}
    THEN config.x # "None" \/ config.y # "None"
    ELSE config.x # "None" /\ config.y # "None"

\* C14: a chart is rendered exactly when its required axes are given (x and y
\* for bar, line and scatter, one axis for histogram and box); a configuration
\* lacking one is skipped with a warning and the others are still processed.
C14_RenderedIffRequiredAxes ==
    \A i \in 1..Len(trace) :
        trace[i].step = "chart" =>
            (trace[i].applied <=> RequiredAxesGiven(trace[i].strategy))

----------------------------------------------------------------------------
(* Properties of "Apply Type Conversions" *)

\* the conversion step of this run, when it has run
Conversion == trace[Len(trace)]

HasConverted == pc = "converted" /\ trace # <<>> /\ Conversion.step = "convert"

\* C16: when "Apply Type Conversions" is run, a coercion that fails on a column
\* or a cell leaves the value as it was or skips it with a warning, the run is
\* not aborted and the other columns are still converted; no conversion turns
\* a cell that was not missing into a missing one.
C16_ConversionKeepsValues ==
    (HasConverted /\ NCols(df) = 1) =>
        \A i \in 1..NRows(df) : notna(loaded.rows[i][1]) => notna(df.rows[i][1])

----------------------------------------------------------------------------
(* The shape of the dataset through the cleaning and conversion steps *)

\* every row holds one cell per column and every column has a dtype: all the
\* columns have the same number of entries
Rectangular(d) ==
    /\ Len(d.dtypes) = NCols(d)
    /\ \A i \in 1..NRows(d) : Len(d.rows[i]) = NCols(d)

UniqueNames(d) == \A a, b \in 1..NCols(d) : d.columns[a] = d.columns[b] => a = b

\* a null-handling, duplicate-handling or type-conversion step
IsOperation ==
    /\ pc \in {"nulls", "dups", "suggested"}
    /\ pc' \in {"nulls", "dups", "cleaned", "converted"}

\* C20: after any sequence of null-handling, duplicate-handling and
\* type-conversion operations every column of the dataset has the same number
\* of entries, the column names are unique and are those of the loaded dataset
\* in the same order, and no operation makes the row count larger.
C20_ShapeKept ==
    /\ [](Rectangular(df) /\ UniqueNames(df) /\ df.columns = loaded.columns)
    /\ [][IsOperation => NRows(df') <= NRows(df)]_vars

\* a run of test_code4.py in which the null step, the duplicate step and the
\* conversion were all applied and rows were dropped
C20_Witness ==
    /\ pc = "converted"
    /\ Len(trace) = 3
    /\ trace[1].step = "null" /\ trace[1].applied
    /\ trace[2].step = "dup" /\ trace[2].applied
    /\ trace[3].step = "convert"
    /\ NRows(df) < NRows(loaded)
    /\ df.dtypes # loaded.dtypes

----------------------------------------------------------------------------
(* The plot section of piping_data.py: a browser session is a sequence of   *)
(* runs of the script, st.session_state is what one run leaves to the next. *)
(* A state is the page after a run; trace holds what the run executed: the  *)
(* button that started it (if one did), the two cleaning steps and the plot *)
(* configurations of the loop.                                              *)

\* the bound on the clicks on "Add Another Plot" in one session
MaxPlots == 2

\* the options of the "Choose plot type:" selectbox
plot_types ==
    {"Histogram", "Box Plot", "Bar Chart (Categorical)", "Scatter Plot", "Line Plot"}

\* df.select_dtypes(include=['float64', 'int64']).columns.tolist()
numeric_cols(d) == {c \in 1..NCols(d) : d.dtypes[c] \in {"float64", "int64"}}

\* df.select_dtypes(include=['object', 'category']).columns.tolist()
categorical_cols(d) == {c \in 1..NCols(d) : d.dtypes[c] \in {"object", "category"}}

\* df.empty: no column or no row
empty(d) == NCols(d) = 0 \/ NRows(d) = 0

\* whether the branch of a plot type raises on the DataFrame d (TRUE: it
\* raises).  A selectbox without options returns None: df[None] of the bar
\* chart raises KeyError; what plotly does with x=None or y=None depends on
\* the columns and the release, so both outcomes are kept for those calls.
plot_raises(plot_type, d) ==
    IF plot_type = "Bar Chart (Categorical)"
    THEN {categorical_cols(d) = {}}
    ELSE IF numeric_cols(d) = {} THEN {TRUE, FALSE} ELSE {FALSE}

\* the entries of the trace made by the plot loop
PlotEntries(t) == SelectSeq(t, LAMBDA en : en.step = "plot")

\* the value of the widget key type_i at the start of a run: the selection shown
\* in the last run, or the first option for a selectbox that was not shown
kept_type(i) ==
    IF i <= Len(PlotEntries(trace)) THEN PlotEntries(trace)[i].strategy ELSE "Histogram"

\* the value of a cleaning selectbox at the start of a run triggered by another
\* widget: what the last run showed
kept_strategy(step) ==
    LET en == SelectSeq(trace, LAMBDA x : x.step = step) IN en[1].strategy

\* for i in range(st.session_state.plot_count): the configurations up to the
\* first whose chart call raises; the exception ends the run
plot_loop(types, raises) ==
    LET n == Len(types)
        stop == IF \E i \in 1..n : raises[i]
                THEN CHOOSE i \in 1..n : raises[i] /\ \A j \in 1..(i - 1) : ~raises[j]
                ELSE n
    IN  [i \in 1..stop |-> Entry("plot", types[i], ~raises[i])]

\* if "plot_count" not in st.session_state / if "plotting_done" not in ...
setdefaults(ss) == ss @@ ("plot_count" :> 0) @@ ("plotting_done" :> FALSE)

\* one run of piping_data.py: ld is what Step 1 loads, button the button whose
\* click started the run ("" for another widget), types the values of the
\* plot type selectboxes
RunScript(ld, null_strategy, dup_strategy, button, types) ==
    LET clicked == IF button = "" THEN <<>> ELSE <<Entry("button", button, ~empty(ld))>>
        cleaned == IF dup_strategy = "Drop duplicates"
                   THEN drop_duplicates(simple_nulls(ld, null_strategy),
                                        1..NCols(ld), "first")
                   ELSE simple_nulls(ld, null_strategy)
        s0 == setdefaults(session_state)
        s1 == IF button = "Add Another Plot"
              THEN [s0 EXCEPT !["plot_count"] = @ + 1] ELSE s0
        s2 == IF button = "Done Plotting"
              THEN [s1 EXCEPT !["plotting_done"] = TRUE] ELSE s1
        steps == clicked \o <<Entry("null", null_strategy, TRUE),
                              Entry("dup", dup_strategy, dup_strategy = "Drop duplicates")>>
    IN  /\ loaded' = ld
        /\ pc' = "page"
        /\ IF empty(ld)
           THEN /\ df' = ld
                /\ trace' = clicked
                /\ UNCHANGED session_state
           ELSE /\ df' = cleaned
                /\ session_state' = s2
                /\ IF s2["plotting_done"]
                   THEN trace' = steps
                   ELSE \E raises \in [1..s2["plot_count"] -> BOOLEAN] :
                           /\ \A i \in 1..s2["plot_count"] :
                                 raises[i] \in plot_raises(types[i], cleaned)
                           /\ trace' = steps \o
                                 plot_loop([i \in 1..s2["plot_count"] |-> types[i]], raises)
        /\ UNCHANGED <<pandas_version, variant, fill_values, suggested>>

\* the files of the session: one row, a column of numbers and a column of text
PlotDatasets == {read_csv(<<r>>) : r \in NumCells \X FewTextCells}

\* a new session: the first run, with nothing uploaded yet
InitPlots ==
    /\ pandas_version \in PandasVersions
    /\ session_state = NoSession
    /\ variant = "piping_data"
    /\ pc = "page"
    /\ df = EmptyFrame
    /\ loaded = EmptyFrame
    /\ trace = <<>>
    /\ fill_values = NoFill
    /\ suggested = <<>>

\* the two buttons are on the page: the last run passed "if not df.empty"
ButtonsShown == ~empty(loaded)

\* what Step 1 loads when the run is started by a widget below it: the same
\* data, or nothing when the request of "API Request" or "Web Scraping", made
\* again by every run, fails this time
Reloads == {loaded, EmptyFrame}

KeptTypes == [i \in 1..MaxPlots |-> kept_type(i)]

\* the user changes the data source, the file or a cleaning strategy
ChangeData ==
    /\ pc = "page"
    /\ \E ld \in PlotDatasets \cup {EmptyFrame} :
          \E null_strategy \in {"Drop rows", "Forward fill", "Backward fill"} :
              \E dup_strategy \in {"Drop duplicates", "Keep all"} :
                  RunScript(ld, null_strategy, dup_strategy, "", KeptTypes)

\* the user changes the plot type of a configuration on the page
ChangePlotType ==
    /\ pc = "page"
    /\ \E k \in 1..Len(PlotEntries(trace)) :
          \E plot_type \in plot_types :
              /\ plot_type # kept_type(k)
              /\ RunScript(loaded, kept_strategy("null"), kept_strategy("dup"), "",
                           [KeptTypes EXCEPT ![k] = plot_type])

\* if st.button("Add Another Plot"): the click starts a run
AddAnotherPlot ==
    /\ pc = "page"
    /\ ButtonsShown
    /\ session_state["plot_count"] < MaxPlots
    /\ \E ld \in Reloads :
          RunScript(ld, kept_strategy("null"), kept_strategy("dup"),
                    "Add Another Plot", KeptTypes)

\* if st.button("Done Plotting"): the click starts a run
DonePlotting ==
    /\ pc = "page"
    /\ ButtonsShown
    /\ \E ld \in Reloads :
          RunScript(ld, kept_strategy("null"), kept_strategy("dup"),
                    "Done Plotting", KeptTypes)

NextPlots ==
    \/ ChangeData
    \/ ChangePlotType
    \/ AddAnotherPlot
    \/ DonePlotting

SpecPlots == InitPlots /\ [][NextPlots]_vars

HasPlotState == "plot_count" \in DOMAIN session_state

plot_count == session_state["plot_count"]

plotting_done == session_state["plotting_done"]

\* the run that made this page was started by a click on the button
StartedBy(t, button) == t # <<>> /\ t[1].step = "button" /\ t[1].strategy = button

\* the run shows as many plot configurations as plot_count, none when
\* plotting_done
RendersPlotCount ==
    HasPlotState =>
        Len(PlotEntries(trace)) = IF plotting_done THEN 0 ELSE plot_count

\* the two keys start at 0 and False
StartsAtZero ==
    (~HasPlotState /\ "plot_count" \in DOMAIN session_state') =>
        session_state'["plot_count"] = 0 /\ ~session_state'["plotting_done"]

\* plot_count never decreases and plotting_done is never reset
NeverBack ==
    HasPlotState =>
        /\ "plot_count" \in DOMAIN session_state'
        /\ session_state'["plot_count"] \in {plot_count, plot_count + 1}
        /\ plotting_done => session_state'["plotting_done"]

\* a click on "Add Another Plot" adds exactly 1, a click on "Done Plotting"
\* sets plotting_done, and nothing else changes the two keys
ClicksCount ==
    /\ StartedBy(trace', "Add Another Plot") =>
          session_state'["plot_count"] = plot_count + 1
    /\ StartedBy(trace', "Done Plotting") => session_state'["plotting_done"]
    /\ (HasPlotState /\ ~StartedBy(trace', "Add Another Plot")) =>
          session_state'["plot_count"] = plot_count
    /\ (HasPlotState /\ ~StartedBy(trace', "Done Plotting")) =>
          session_state'["plotting_done"] = plotting_done

\* C22: in the session plot state of piping_data.py, plot_count starts at 0,
\* grows by exactly 1 per click on "Add Another Plot" and never decreases;
\* plotting_done starts false, becomes true on "Done Plotting" and is never
\* reset; in every rerun where plotting_done is true no plot is rendered, and
\* in every rerun where it is false exactly plot_count plot configurations
\* are rendered.
C22_SessionPlotState ==
    /\ []RendersPlotCount
    /\ [][StartsAtZero /\ NeverBack /\ ClicksCount]_vars

=============================================================================
